---- MODULE Spec2Model ----
(***************************************************************************)
(* A model of the loggo logger hierarchy: Logger handles (logger.go) on    *)
(* modules owned by a Context.  Strings are sequences of one-character     *)
(* strings, so that lower-casing, the search for the last "." and          *)
(* strings.Join are computed rather than assumed.                          *)
(***************************************************************************)
EXTENDS Integers, Sequences, FiniteSets, TLC

VARIABLES
    nodes,      \* the heap of module objects; a *module is an index into it
    modules,    \* modules[c]: the Context's map from canonical name to *module
    writers,    \* writers[c]: the Context's writers, in the order they were added
    mutex,      \* mutex[c]: the thread holding the Context's lock, or NoThread
    pc,         \* pc[t]: the position of thread t inside the call it is making
    local,      \* local[t]: the locals of the call thread t is making
    sink,       \* the deliveries of the most recent accepted log call
    last,       \* the last completed call of the sequential client
    labelMaps   \* the heap of Labels maps; a Labels value is an index into it

vars == <<nodes, modules, writers, mutex, pc, local, sink, last, labelMaps>>

----------------------------------------------------------------------------
(* Bounds of the model. *)

MaxNodes   == 4      \* modules on the heap, the two roots included
NumThreads == 2      \* concurrent callers
MaxMaps    == 5      \* Labels maps on the heap, the callers' own included

Threads  == 1..NumThreads
NoThread == 0

----------------------------------------------------------------------------
(* Strings. *)

ToLowerChar(ch) ==
    CASE ch = "A" -> "a"
      [] ch = "B" -> "b"
      [] OTHER    -> ch

ToLower(s) == [i \in 1..Len(s) |-> ToLowerChar(s[i])]

\* strings.LastIndex(s, ch), 1-based; 0 when ch does not occur.
LastIndex(s, ch) ==
    LET hits == {i \in 1..Len(s) : s[i] = ch}
    IN  IF hits = {} THEN 0 ELSE CHOOSE i \in hits : \A j \in hits : j <= i

RECURSIVE Join(_, _)
Join(strs, sep) ==
    IF Len(strs) = 0 THEN <<>>
    ELSE IF Len(strs) = 1 THEN strs[1]
    ELSE strs[1] \o sep \o Join(Tail(strs), sep)

RootString == <<"<", "r", "o", "o", "t", ">">>
LoggerTags == "logger-tags"

----------------------------------------------------------------------------
(* Levels. *)

UNSPECIFIED == 0
TRACE       == 1
DEBUG       == 2
INFO        == 3
WARNING     == 4
ERROR       == 5
CRITICAL    == 6

Levels == UNSPECIFIED..CRITICAL

----------------------------------------------------------------------------
(* Contexts, modules and handles. *)

DefaultContext == "default"
OtherContext   == "ctx"
Contexts       == {DefaultContext, OtherContext}

Nil == 0

NoLabels == [k \in {} |-> <<>>]

Module(name, level, parent, context, tags) ==
    [name |-> name, level |-> level, parent |-> parent,
     context |-> context, tags |-> tags]

\* The Logger struct: a *module (Nil in the zero value) and the ad-hoc labels.
Logger(impl, labels) == [impl |-> impl, labels |-> labels]

ZeroLogger == Logger(Nil, NoLabels)

\* The registry as one value, for the operators that compute on it.
Registry(ns, ms) == [nodes |-> ns, modules |-> ms]
Cur == Registry(nodes, modules)

\* NewContext(rootLevel): the root module a Context is made with, at heap
\* index id; root is its own parent.
NewContextRoot(id, c, rootLevel) == Module(<<>>, rootLevel, id, c, <<>>)

RootOf(st, c) == st.modules[c][<<>>]

----------------------------------------------------------------------------
(* Context.GetLogger. *)

\* The idempotent union of the tags a module has with the tags supplied.
RECURSIVE MergeTags(_, _)
MergeTags(have, new) ==
    IF Len(new) = 0 THEN have
    ELSE IF \E i \in 1..Len(have) : have[i] = new[1]
         THEN MergeTags(have, Tail(new))
         ELSE MergeTags(Append(have, new[1]), Tail(new))

ParentName(name) ==
    LET i == LastIndex(name, ".")
    IN  IF i >= 1 THEN SubSeq(name, 1, i - 1) ELSE <<>>

RECURSIVE getLoggerModule(_, _, _, _)

\* Creates the module `name`, which the caller found missing, below its
\* parent, itself found or created first.
createModule(st, c, name, tags) ==
    LET p   == getLoggerModule(st, c, ParentName(name), <<>>)
        id  == Len(p.st.nodes) + 1
        new == Module(name, UNSPECIFIED, p.impl, c, MergeTags(<<>>, tags))
    IN  [st   |-> Registry(Append(p.st.nodes, new),
                           [p.st.modules EXCEPT ![c] =
                               [n \in DOMAIN @ \cup {name} |->
                                   IF n = name THEN id ELSE @[n]]]),
         impl |-> id]

\* The module found under `name`, with the supplied tags merged into it.
foundModule(st, c, name, tags) ==
    LET id == st.modules[c][name]
    IN  [st   |-> Registry([st.nodes EXCEPT ![id].tags = MergeTags(@, tags)],
                           st.modules),
         impl |-> id]

getLoggerModule(st, c, name, tags) ==
    IF name \in DOMAIN st.modules[c]
    THEN foundModule(st, c, name, tags)
    ELSE createModule(st, c, name, tags)

\* Context.GetLogger(name, tags...): the registry afterwards and the handle.
GetLogger(st, c, name, tags) ==
    LET r == getLoggerModule(st, c, ToLower(name), tags)
    IN  [st |-> r.st, logger |-> Logger(r.impl, NoLabels)]

----------------------------------------------------------------------------
(* module: name, levels, the writers' fan-out. *)

\* module.Name(): the root, whose name is empty, is shown as "<root>".
moduleName(m) == IF m.name = <<>> THEN RootString ELSE m.name

\* The value standing for a call that never returns.
Hangs == -1

\* module.getEffectiveLogLevel(): walks the parent links to the first
\* specified level.  fuel counts the links left to follow before the walk
\* must have met a module twice, that is, before it is known never to end.
RECURSIVE effectiveWalk(_, _, _)
effectiveWalk(st, id, fuel) ==
    IF st.nodes[id].level # UNSPECIFIED THEN st.nodes[id].level
    ELSE IF fuel = 0 THEN Hangs
    ELSE effectiveWalk(st, st.nodes[id].parent, fuel - 1)

getEffectiveLogLevel(st, id) == effectiveWalk(st, id, Len(st.nodes))

\* The number of parent links the walk of getEffectiveLogLevel follows from
\* module id before it returns; Hangs when it never returns.
RECURSIVE walkLength(_, _, _)
walkLength(st, id, fuel) ==
    IF st.nodes[id].level # UNSPECIFIED THEN 0
    ELSE IF fuel = 0 THEN Hangs
    ELSE LET n == walkLength(st, st.nodes[id].parent, fuel - 1)
         IN  IF n = Hangs THEN Hangs ELSE n + 1

\* module.setLevel(level): the root cannot be made UNSPECIFIED.
setLevel(st, id, level) ==
    LET lv == IF st.nodes[id].name = <<>> /\ level = UNSPECIFIED
              THEN WARNING ELSE level
    IN  Registry([st.nodes EXCEPT ![id].level = lv], st.modules)

\* module.willWrite(level)
willWrite(st, id, level) ==
    LET eff == getEffectiveLogLevel(st, id)
    IN  IF eff = Hangs THEN FALSE ELSE level >= eff

\* Context.ResetLoggerLevels(): every module of c back to UNSPECIFIED, the
\* root to WARNING.
ResetLevels(st, c) ==
    Registry([i \in 1..Len(st.nodes) |->
                 IF st.nodes[i].context # c THEN st.nodes[i]
                 ELSE [st.nodes[i] EXCEPT !.level =
                          IF st.nodes[i].name = <<>> THEN WARNING
                          ELSE UNSPECIFIED]],
             st.modules)

----------------------------------------------------------------------------
(* logger.go: the Logger handle. *)

WithLabels(logger, labels) ==
    IF DOMAIN labels = {} THEN logger
    ELSE Logger(logger.impl, [k \in DOMAIN labels |-> labels[k]])

\* getModule resolving the nil module against another Context's root.
getModule_OtherRoot(st, logger) ==
    IF logger.impl = Nil THEN RootOf(st, OtherContext) ELSE logger.impl

getModule(st, logger) ==
    IF logger.impl = Nil THEN RootOf(st, DefaultContext) ELSE logger.impl

Root(st, logger) ==
    LET module == st.nodes[getModule(st, logger)]
    IN  GetLogger(st, module.context, <<>>, <<>>)

\* Parent answering with the root of the module's Context.
Parent_Root(st, logger) ==
    Logger(RootOf(st, st.nodes[getModule(st, logger)].context), NoLabels)

Parent(st, logger) ==
    Logger(st.nodes[getModule(st, logger)].parent, NoLabels)

\* The path composed without the special case of the root.
ChildPath_AlwaysDot(module, name) == module.name \o <<".">> \o name

\* The path Child and ChildWithTags resolve.
ChildPath(module, name) ==
    IF module.name = <<>> THEN name ELSE module.name \o <<".">> \o name

\* Child resolving the path in the default Context (the package-level
\* GetLogger) instead of the module's own.
Child_DefaultContext(st, logger, name) ==
    LET module == st.nodes[getModule(st, logger)]
    IN  GetLogger(st, DefaultContext, ChildPath(module, name), <<>>)

Child(st, logger, name) ==
    LET module == st.nodes[getModule(st, logger)]
    IN  GetLogger(st, module.context, ChildPath(module, name), <<>>)

ChildWithTags(st, logger, name, tags) ==
    LET module == st.nodes[getModule(st, logger)]
    IN  GetLogger(st, module.context, ChildPath(module, name), tags)

\* Name reading the module's name field instead of calling module.Name().
Name_Field(st, logger) == st.nodes[getModule(st, logger)].name

Name(st, logger) == moduleName(st.nodes[getModule(st, logger)])

LogLevel(st, logger) == st.nodes[getModule(st, logger)].level

Tags(st, logger) == st.nodes[getModule(st, logger)].tags

\* EffectiveLogLevel answering with the module's own level.
EffectiveLogLevel_OwnLevel(st, logger) ==
    st.nodes[getModule(st, logger)].level

EffectiveLogLevel(st, logger) ==
    getEffectiveLogLevel(st, getModule(st, logger))

\* SetLogLevel setting the level of a copy of the module: the module itself
\* stays as it was.
SetLogLevel_OnCopy(st, logger, level) == st

\* SetLogLevel storing the level in the module without going through setLevel.
SetLogLevel_DirectStore(st, logger, level) ==
    Registry([st.nodes EXCEPT ![getModule(st, logger)].level = level],
             st.modules)

\* SetLogLevel storing the level in the module's parent as well.
SetLogLevel_AndParent(st, logger, level) ==
    LET id == getModule(st, logger)
        s1 == setLevel(st, id, level)
    IN  IF level = UNSPECIFIED THEN s1
        ELSE setLevel(s1, st.nodes[id].parent, level)

SetLogLevel(st, logger, level) == setLevel(st, getModule(st, logger), level)

\* IsLevelEnabled comparing against the module's own level.
IsLevelEnabled_OwnLevel(st, logger, level) ==
    level >= st.nodes[getModule(st, logger)].level

IsLevelEnabled(st, logger, level) ==
    willWrite(st, getModule(st, logger), level)

IsErrorEnabled(st, logger)   == IsLevelEnabled(st, logger, ERROR)
IsWarningEnabled(st, logger) == IsLevelEnabled(st, logger, WARNING)
IsInfoEnabled(st, logger)    == IsLevelEnabled(st, logger, INFO)
IsDebugEnabled(st, logger)   == IsLevelEnabled(st, logger, DEBUG)
IsTraceEnabled(st, logger)   == IsLevelEnabled(st, logger, TRACE)

----------------------------------------------------------------------------
(* Inputs of the calls. *)

NameInputs == { <<>>, <<"A", ".", "B">>, <<".", "b">> }

SuffixInputs == { <<"B">> }

TagInputs == { << <<"t", "1">>, <<"t", "2">> >> }

LabelInputs ==
    { NoLabels,
      [k \in {"foo", LoggerTags} |-> IF k = "foo" THEN <<"b", "a", "r">>
                                     ELSE <<"m", "i", "n", "e">>] }

\* The names the level hierarchy is built from: a chain three deep.
LevelNames == { <<"a">>, <<"A", ".", "B">>, <<"a", ".", "b", ".", "a">> }

\* The handles a caller can hold in registry st: the zero Logger, and any
\* module of the heap (GetLogger returns it) with any labels (WithLabels).
Handles(st) ==
    { WithLabels(Logger(i, NoLabels), ls) :
         i \in 0..Len(st.nodes), ls \in LabelInputs }

PlainHandles(st) == { h \in Handles(st) : h.labels = NoLabels }

----------------------------------------------------------------------------
(* The state after construction: the default Context, whose root is at     *)
(* WARNING, and one Context made by NewContext(DEBUG); no writers, nobody  *)
(* inside a call.                                                          *)

\* The Labels maps the callers have built before their first call: an empty
\* one and two that share the key "foo".
CallerMaps ==
    << NoLabels,
       [k \in {"foo", LoggerTags} |-> IF k = "foo" THEN <<"b", "a", "r">>
                                      ELSE <<"m", "i", "n", "e">>],
       [k \in {"foo", "baz"} |-> IF k = "foo" THEN <<"n", "e", "w">>
                                 ELSE <<"q", "u", "x">>] >>

NoCall == [op |-> "none", ctx |-> DefaultContext, recv |-> ZeroLogger,
           arg |-> <<>>, tags |-> <<>>, level |-> UNSPECIFIED,
           result |-> ZeroLogger]

Call(op, c, recv, arg, tags, level, result) ==
    [op |-> op, ctx |-> c, recv |-> recv, arg |-> arg, tags |-> tags,
     level |-> level, result |-> result]

NoLocal == [op |-> "none"]

NoDelivery == [context |-> "none"]

Init ==
    /\ nodes = << NewContextRoot(1, DefaultContext, WARNING),
                  NewContextRoot(2, OtherContext, DEBUG) >>
    /\ modules = [c \in Contexts |->
                    [n \in {<<>>} |-> IF c = DefaultContext THEN 1 ELSE 2]]
    /\ writers = [c \in Contexts |-> <<>>]
    /\ mutex = [c \in Contexts |-> NoThread]
    /\ pc = [t \in Threads |-> "idle"]
    /\ local = [t \in Threads |-> NoLocal]
    /\ sink = NoDelivery
    /\ last = NoCall
    /\ labelMaps = CallerMaps

\* A call that changes the registry to r.st, within the heap bound.
Becomes(st) ==
    /\ Len(st.nodes) <= MaxNodes
    /\ nodes' = st.nodes
    /\ modules' = st.modules

ContextOf(st, logger) == st.nodes[getModule(st, logger)].context

----------------------------------------------------------------------------
(* The calls of a sequential client, each a whole call. *)

DoGetLogger(c, name, tags) ==
    LET r == GetLogger(Cur, c, name, tags)
    IN  /\ Becomes(r.st)
        /\ last' = Call("GetLogger", c, ZeroLogger, name, tags, UNSPECIFIED,
                        r.logger)
        /\ UNCHANGED <<writers, mutex, pc, local, sink, labelMaps>>

DoChild(h, name) ==
    LET r == Child(Cur, h, name)
    IN  /\ Becomes(r.st)
        /\ last' = Call("Child", ContextOf(Cur, h), h, name, <<>>,
                        UNSPECIFIED, r.logger)
        /\ UNCHANGED <<writers, mutex, pc, local, sink, labelMaps>>

DoChildWithTags(h, name, tags) ==
    LET r == ChildWithTags(Cur, h, name, tags)
    IN  /\ Becomes(r.st)
        /\ last' = Call("ChildWithTags", ContextOf(Cur, h), h, name, tags,
                        UNSPECIFIED, r.logger)
        /\ UNCHANGED <<writers, mutex, pc, local, sink, labelMaps>>

DoParent(h) ==
    /\ last' = Call("Parent", ContextOf(Cur, h), h, <<>>, <<>>, UNSPECIFIED,
                    Parent(Cur, h))
    /\ UNCHANGED <<nodes, modules, writers, mutex, pc, local, sink, labelMaps>>

DoRoot(h) ==
    LET r == Root(Cur, h)
    IN  /\ Becomes(r.st)
        /\ last' = Call("Root", ContextOf(Cur, h), h, <<>>, <<>>,
                        UNSPECIFIED, r.logger)
        /\ UNCHANGED <<writers, mutex, pc, local, sink, labelMaps>>

DoSetLogLevel(h, level) ==
    /\ Becomes(SetLogLevel(Cur, h, level))
    /\ last' = Call("SetLogLevel", ContextOf(Cur, h), h, <<>>, <<>>, level, h)
    /\ UNCHANGED <<writers, mutex, pc, local, sink, labelMaps>>

DoResetLevels(c) ==
    /\ Becomes(ResetLevels(Cur, c))
    /\ last' = Call("ResetLevels", c, ZeroLogger, <<>>, <<>>, UNSPECIFIED,
                    ZeroLogger)
    /\ UNCHANGED <<writers, mutex, pc, local, sink, labelMaps>>

----------------------------------------------------------------------------
(* SpecTree: the namespace, built and navigated by a sequential client.    *)

NextTree ==
    \/ \E c \in Contexts, name \in NameInputs : DoGetLogger(c, name, <<>>)
    \/ \E h \in Handles(Cur), name \in SuffixInputs : DoChild(h, name)
    \/ \E h \in Handles(Cur), name \in SuffixInputs, tags \in TagInputs :
          DoChildWithTags(h, name, tags)
    \/ \E h \in Handles(Cur) : DoParent(h)
    \/ \E h \in Handles(Cur) : DoRoot(h)

SpecTree == Init /\ [][NextTree]_vars

(* SpecLevels: levels set and reset on a chain of modules of the default   *)
(* Context, through the zero Logger and the handles GetLogger returns.     *)

DefaultHandles(st) ==
    { h \in PlainHandles(st) : ContextOf(st, h) = DefaultContext }

NextLevels ==
    \/ \E name \in LevelNames : DoGetLogger(DefaultContext, name, <<>>)
    \/ \E h \in DefaultHandles(Cur), level \in Levels :
          DoSetLogLevel(h, level)
    \/ DoResetLevels(DefaultContext)

SpecLevels == Init /\ [][NextLevels]_vars

----------------------------------------------------------------------------
(* Level inheritance (SpecLevels). *)

IsRoot(st, logger) == st.nodes[getModule(st, logger)].name = <<>>

Specified == TRACE..CRITICAL

\* The names from `name` up to the root: name, its parent's name, ... , "".
RECURSIVE NameChain(_)
NameChain(name) ==
    IF name = <<>> THEN << <<>> >>
    ELSE <<name>> \o NameChain(ParentName(name))

\* The level of the nearest module, from `name` upwards by name, whose own
\* level is specified; computed from the Context's map and the names, not
\* from the parent links.
NearestSpecified(st, c, name) ==
    LET chain == NameChain(name)
        own(i) == st.nodes[st.modules[c][chain[i]]].level
        hits  == {i \in 1..Len(chain) :
                     chain[i] \in DOMAIN st.modules[c] /\ own(i) # UNSPECIFIED}
    IN  IF hits = {} THEN Hangs
        ELSE own(CHOOSE i \in hits : \A j \in hits : i <= j)

\* C1: for every non-root module n, the effective level is n's own level
\* when that is specified and otherwise the effective level of n's parent,
\* which is the level of the nearest ancestor with a specified level; after
\* SetLogLevel(UNSPECIFIED) on a non-root module it is the parent's
\* effective level again.
C1_EffectiveLevelInherits ==
    /\ \A h \in PlainHandles(Cur) :
          ~IsRoot(Cur, h) =>
             LET m == nodes[getModule(Cur, h)]
             IN  /\ EffectiveLogLevel(Cur, h) \in Specified
                 /\ LogLevel(Cur, h) # UNSPECIFIED =>
                       EffectiveLogLevel(Cur, h) = LogLevel(Cur, h)
                 /\ LogLevel(Cur, h) = UNSPECIFIED =>
                       EffectiveLogLevel(Cur, h) =
                          EffectiveLogLevel(Cur, Parent(Cur, h))
                 /\ EffectiveLogLevel(Cur, h) =
                       NearestSpecified(Cur, m.context, m.name)
    /\ (last.op = "SetLogLevel" /\ last.level = UNSPECIFIED
            /\ ~IsRoot(Cur, last.recv)) =>
          EffectiveLogLevel(Cur, last.recv) =
             EffectiveLogLevel(Cur, Parent(Cur, last.recv))

\* first.second was set back to UNSPECIFIED below an UNSPECIFIED parent and
\* a root at ERROR, and answers ERROR.
C1_Witness ==
    /\ last.op = "SetLogLevel" /\ last.level = UNSPECIFIED
    /\ Name(Cur, last.recv) = <<"a", ".", "b">>
    /\ LogLevel(Cur, Parent(Cur, last.recv)) = UNSPECIFIED
    /\ LogLevel(Cur, ZeroLogger) = ERROR
    /\ EffectiveLogLevel(Cur, last.recv) = ERROR

\* C2: the own level of every root is a specified level in every reachable
\* state, and SetLogLevel(UNSPECIFIED) on a root leaves its own and its
\* effective level at WARNING.
C2_RootNeverUnspecified ==
    /\ \A c \in Contexts : nodes[RootOf(Cur, c)].level \in Specified
    /\ \A h \in PlainHandles(Cur) :
          IsRoot(Cur, h) => LogLevel(Cur, h) \in Specified
    /\ (last.op = "SetLogLevel" /\ last.level = UNSPECIFIED
            /\ IsRoot(Cur, last.recv)) =>
          /\ LogLevel(Cur, last.recv) = WARNING
          /\ EffectiveLogLevel(Cur, last.recv) = WARNING

\* The root was asked to become UNSPECIFIED while a module below it has a
\* level of its own.
C2_Witness ==
    /\ last.op = "SetLogLevel" /\ last.level = UNSPECIFIED
    /\ IsRoot(Cur, last.recv)
    /\ LogLevel(Cur, last.recv) = WARNING
    /\ \E h \in PlainHandles(Cur) :
          ~IsRoot(Cur, h) /\ LogLevel(Cur, h) = TRACE

Enabled(st, h) ==
    [x \in Levels |-> IsLevelEnabled(st, h, x)]

\* C3: IsLevelEnabled(X), and each named predicate for its level, is true
\* exactly when X >= EffectiveLogLevel(); a module at TRACE enables every
\* level, a module at CRITICAL only CRITICAL, and an UNSPECIFIED non-root
\* module answers as its parent does.
C3_EnabledIffAtLeastEffective ==
    \A h \in PlainHandles(Cur) :
       LET eff == EffectiveLogLevel(Cur, h)
       IN  /\ \A x \in Levels : IsLevelEnabled(Cur, h, x) <=> (x >= eff)
           /\ IsTraceEnabled(Cur, h)   <=> (TRACE >= eff)
           /\ IsDebugEnabled(Cur, h)   <=> (DEBUG >= eff)
           /\ IsInfoEnabled(Cur, h)    <=> (INFO >= eff)
           /\ IsWarningEnabled(Cur, h) <=> (WARNING >= eff)
           /\ IsErrorEnabled(Cur, h)   <=> (ERROR >= eff)
           /\ eff \in Specified
           /\ LogLevel(Cur, h) = TRACE =>
                 \A x \in Specified : IsLevelEnabled(Cur, h, x)
           /\ LogLevel(Cur, h) = CRITICAL =>
                 \A x \in Levels :
                    IsLevelEnabled(Cur, h, x) <=> (x = CRITICAL)
           /\ (LogLevel(Cur, h) = UNSPECIFIED /\ ~IsRoot(Cur, h)) =>
                 Enabled(Cur, h) = Enabled(Cur, Parent(Cur, h))

\* A non-root module was set to CRITICAL below a root at TRACE: it enables
\* CRITICAL and not ERROR, while its UNSPECIFIED child answers the same.
C3_Witness ==
    /\ last.op = "SetLogLevel" /\ last.level = CRITICAL
    /\ Name(Cur, last.recv) = <<"a">>
    /\ LogLevel(Cur, ZeroLogger) = TRACE
    /\ IsLevelEnabled(Cur, last.recv, CRITICAL)
    /\ ~IsErrorEnabled(Cur, last.recv)
    /\ \E h \in PlainHandles(Cur) :
          /\ Name(Cur, h) = <<"a", ".", "b">>
          /\ LogLevel(Cur, h) = UNSPECIFIED
          /\ ~IsErrorEnabled(Cur, h)

----------------------------------------------------------------------------
(* The namespace (SpecTree). *)

\* The arguments the properties below try in every reachable registry.
NameArgs ==
    { <<>>, <<"a">>, <<"A">>, <<"a", ".", "b">>, <<"A", ".", "b">>,
      <<"a", ".", "B">>, <<".", "b">>, <<"b", ".">> }

SegmentArgs == { <<>>, <<"b">>, <<"A">> }

\* Name() of GetLogger(N), read literally: the lower-cased N for every N.
C6_NameIsLowerCased ==
    last.op = "GetLogger" =>
       /\ Name(Cur, last.result) = ToLower(last.arg)
       /\ last.result = GetLogger(Cur, last.ctx, last.arg, <<>>).logger

\* The module registered under a name stays the same module, with the same
\* name, in every step.
NodesAreStable ==
    /\ \A c \in Contexts : \A n \in DOMAIN modules[c] :
          n \in DOMAIN modules'[c] /\ modules'[c][n] = modules[c][n]
    /\ \A i \in 1..Len(nodes) :
          /\ i <= Len(nodes')
          /\ nodes'[i].name = nodes[i].name
          /\ nodes'[i].context = nodes[i].context

C6_State ==
    /\ last.op = "GetLogger" =>
          /\ Name(Cur, last.result) =
                IF ToLower(last.arg) = <<>> THEN RootString
                ELSE ToLower(last.arg)
          /\ last.result.impl = modules[last.ctx][ToLower(last.arg)]
    /\ \A c \in Contexts : \A n1 \in NameArgs :
          LET r1 == GetLogger(Cur, c, n1, <<>>)
          IN  /\ n1 # <<>> => Name(r1.st, r1.logger) = ToLower(n1)
              /\ n1 = <<>> => Name(r1.st, r1.logger) = RootString
              /\ \A n2 \in NameArgs :
                    ToLower(n1) = ToLower(n2) =>
                       LET r2 == GetLogger(r1.st, c, n2, <<>>)
                       IN  r2.logger = r1.logger /\ r2.st = r1.st

\* C6 (amended): GetLogger(N).Name() is the lower-cased N for every
\* non-empty N and "<root>" for the empty name; GetLogger calls with the
\* same N in any letter case, on the same Context, return handles on the
\* identical module, whatever calls come in between.
C6_NameAndIdentity == []C6_State /\ [][NodesAreStable]_vars

\* GetLogger("A.B") has returned the module a.b, and a second call in
\* another letter case finds the same module.
C6_Witness ==
    /\ last.op = "GetLogger" /\ last.arg = <<"A", ".", "B">>
    /\ Name(Cur, last.result) = <<"a", ".", "b">>
    /\ GetLogger(Cur, last.ctx, <<"a", ".", "B">>, <<>>).logger = last.result

\* C7: every non-root module named "p.s" has the module named "p" of the
\* same Context as its parent (the root for a name of one segment), that
\* parent is registered in every state in which the child is, every module
\* of the heap is the one registered under its name, and the root is its
\* own parent: Parent() of a root handle is the root handle.
C7_ParentLinks ==
    /\ \A c \in Contexts : \A n \in DOMAIN modules[c] :
          LET id == modules[c][n]
              h  == Logger(id, NoLabels)
          IN  /\ nodes[id].name = n /\ nodes[id].context = c
              /\ n = <<>> =>
                    /\ nodes[id].parent = id
                    /\ Parent(Cur, h) = h
                    /\ Parent(Cur, h) = GetLogger(Cur, c, <<>>, <<>>).logger
              /\ n # <<>> =>
                    /\ ParentName(n) \in DOMAIN modules[c]
                    /\ Parent(Cur, h).impl = modules[c][ParentName(n)]
                    /\ nodes[id].parent # id
                    /\ LastIndex(n, ".") = 0 =>
                          Parent(Cur, h).impl = RootOf(Cur, c)
                    /\ LastIndex(n, ".") > 0 =>
                          n = nodes[Parent(Cur, h).impl].name \o <<".">>
                                \o SubSeq(n, LastIndex(n, ".") + 1, Len(n))
    /\ \A i \in 1..Len(nodes) :
          /\ nodes[i].name \in DOMAIN modules[nodes[i].context]
          /\ modules[nodes[i].context][nodes[i].name] = i
    /\ Parent(Cur, ZeroLogger) = GetLogger(Cur, DefaultContext, <<>>, <<>>).logger

\* GetLogger("A.B") created a.b and, before it, its parent a, whose parent
\* is the root.
C7_Witness ==
    /\ last.op = "GetLogger" /\ last.arg = <<"A", ".", "B">>
    /\ Name(Cur, Parent(Cur, last.result)) = <<"a">>
    /\ Name(Cur, Parent(Cur, Parent(Cur, last.result))) = RootString
    /\ Parent(Cur, Parent(Cur, Parent(Cur, last.result))) =
          Parent(Cur, Parent(Cur, last.result))

\* The path Child is to resolve, in the words of the claim.
ClaimedPath(st, h, s) ==
    IF IsRoot(st, h) THEN s ELSE Name(st, h) \o <<".">> \o s

ChildResolves(h, s) ==
    Child(Cur, h, s) =
       GetLogger(Cur, ContextOf(Cur, h), ClaimedPath(Cur, h, s), <<>>)

Composes(h, a, b) ==
    LET r1 == Child(Cur, h, a)
        r2 == Child(r1.st, r1.logger, b)
        r3 == Child(r2.st, h, a \o <<".">> \o b)
    IN  r2.logger = r3.logger /\ r3.st = r2.st

RoundTrips(h) ==
    LET r1 == Root(Cur, h)
        r2 == Child(r1.st, r1.logger, Name(Cur, h))
    IN  r2.logger = h

ChildOfParent(h, s) ==
    LET r == Child(Cur, h, s) IN Parent(r.st, r.logger) = h

\* The claim as stated: composition for any suffixes, the round trip through
\* Root() and the parent of a child for every handle without labels.
C8_ChildComposesForAll ==
    \A h \in PlainHandles(Cur) :
       /\ \A a \in SegmentArgs, b \in SegmentArgs : Composes(h, a, b)
       /\ \A s \in NameArgs : ChildResolves(h, s)
       /\ \A s \in SegmentArgs : ChildOfParent(h, s)
       /\ RoundTrips(h)

\* C8 (amended): for a handle h without labels and suffixes a, b, a not
\* empty when h is on a root, h.Child(a).Child(b) equals h.Child(a.b);
\* on a root Child("").Child(b) is the module b and Child(".b") another;
\* Child(s) resolves s on a root and Name().s elsewhere; for h on a
\* non-root module h.Root().Child(h.Name()) equals h; and for h holding a
\* module (not the zero Logger) h.Child(s).Parent() equals h for a
\* single-segment s.
C8_ChildComposes ==
    \A h \in PlainHandles(Cur) :
       /\ \A a \in SegmentArgs, b \in SegmentArgs :
             (a # <<>> \/ ~IsRoot(Cur, h)) => Composes(h, a, b)
       /\ \A b \in SegmentArgs : IsRoot(Cur, h) => ~Composes(h, <<>>, b)
       /\ \A s \in NameArgs : ChildResolves(h, s)
       /\ \A s \in SegmentArgs : h.impl # Nil => ChildOfParent(h, s)
       /\ ~IsRoot(Cur, h) => RoundTrips(h)

\* Child("B") was called on the module a: its result is a.b, the module
\* that Child("a.b") on the root and GetLogger("a.b") give, and its parent
\* is the receiver.
C8_Witness ==
    /\ last.op = "Child" /\ last.arg = <<"B">>
    /\ last.recv.labels = NoLabels
    /\ Name(Cur, last.recv) = <<"a">>
    /\ Name(Cur, last.result) = <<"a", ".", "b">>
    /\ Parent(Cur, last.result) = last.recv
    /\ Child(Cur, Root(Cur, last.recv).logger, <<"a", ".", "b">>).logger
          = last.result

----------------------------------------------------------------------------
(* Several Contexts side by side (SpecTree). *)

\* Registry `to` differs from `from` only inside Context c: the maps of
\* the other Contexts and every module of theirs are as they were, and
\* every module added belongs to c.
OnlyTouches(from, to, c) ==
    /\ \A c2 \in Contexts \ {c} : to.modules[c2] = from.modules[c2]
    /\ Len(to.nodes) >= Len(from.nodes)
    /\ \A i \in 1..Len(from.nodes) :
          from.nodes[i].context # c => to.nodes[i] = from.nodes[i]
    /\ \A i \in (Len(from.nodes) + 1)..Len(to.nodes) :
          to.nodes[i].context = c

\* The result r of a call on handle h stays in h's Context.
StaysIn(h, r) ==
    /\ r.logger.impl # Nil
    /\ r.st.nodes[r.logger.impl].context = ContextOf(Cur, h)
    /\ r.logger.impl \in
          {r.st.modules[ContextOf(Cur, h)][n] :
              n \in DOMAIN r.st.modules[ContextOf(Cur, h)]}
    /\ OnlyTouches(Cur, r.st, ContextOf(Cur, h))

\* C9: Child, ChildWithTags, Parent and Root on a handle of Context R
\* return a handle on a module of R and add or change modules only in R;
\* R.GetLogger("a").Child("b") equals R.GetLogger("a.b") and, for R other
\* than the default Context, differs from the default Context's "a.b".
C9_RegistryIsolation ==
    /\ \A h \in Handles(Cur) :
          /\ \A s \in NameArgs :
                /\ StaysIn(h, Child(Cur, h, s))
                /\ \A tags \in TagInputs \cup {<<>>} :
                      StaysIn(h, ChildWithTags(Cur, h, s, tags))
          /\ StaysIn(h, Root(Cur, h))
          /\ StaysIn(h, [st |-> Cur, logger |-> Parent(Cur, h)])
    /\ \A c \in Contexts :
          LET a  == GetLogger(Cur, c, <<"a">>, <<>>)
              ab == Child(a.st, a.logger, <<"b">>)
              g  == GetLogger(ab.st, c, <<"a", ".", "b">>, <<>>)
              d  == GetLogger(g.st, DefaultContext, <<"a", ".", "b">>, <<>>)
          IN  /\ ab.logger = g.logger
              /\ c # DefaultContext => ab.logger # d.logger
    /\ (last.op \in {"Child", "ChildWithTags", "Parent", "Root"}) =>
          /\ last.result.impl # Nil
          /\ nodes[last.result.impl].context = last.ctx
          /\ last.ctx = ContextOf(Cur, last.recv)

\* Child("B") on the root of the Context made by NewContext created b
\* there, while the default Context holds a module b of its own.
C9_Witness ==
    /\ last.op = "Child" /\ last.ctx = OtherContext
    /\ Name(Cur, last.result) = <<"b">>
    /\ nodes[last.result.impl].context = OtherContext
    /\ <<"b">> \in DOMAIN modules[DefaultContext]
    /\ modules[DefaultContext][<<"b">>] # last.result.impl
    /\ last.result = GetLogger(Cur, OtherContext, <<"b">>, <<>>).logger

----------------------------------------------------------------------------
(* Logger.LogCallf.  A message is a sequence of tokens: text "m", the verb  *)
(* "%d", the newline; an argument has a type and a text.                   *)

StripNewline(message) ==
    IF Len(message) > 0 /\ message[Len(message)] = "\n"
    THEN SubSeq(message, 1, Len(message) - 1)
    ELSE message

\* What fmt prints for one %d verb and its argument.
FormatVerb(arg) ==
    IF arg.type = "int" THEN <<arg.text>>
    ELSE <<"%!d(" \o arg.type \o "=" \o arg.text \o ")">>

\* fmt.Sprintf(message, args...)
RECURSIVE Sprintf(_, _)
Sprintf(message, args) ==
    IF Len(message) = 0
    THEN IF Len(args) = 0 THEN <<>> ELSE <<"%!(EXTRA)">>
    ELSE IF message[1] = "%d"
         THEN IF Len(args) = 0
              THEN <<"%!d(MISSING)">> \o Sprintf(Tail(message), args)
              ELSE FormatVerb(args[1]) \o Sprintf(Tail(message), Tail(args))
         ELSE <<message[1]>> \o Sprintf(Tail(message), args)

FormattedMessage(message, args) ==
    IF Len(args) > 0 THEN Sprintf(StripNewline(message), args)
    ELSE StripNewline(message)

\* The merge in which the tags' label overrides an ad-hoc label of its key.
EntryLabels_TagsWin(tags, labels) ==
    IF Len(tags) > 0 \/ DOMAIN labels # {}
    THEN [k \in DOMAIN labels \cup (IF Len(tags) > 0 THEN {LoggerTags} ELSE {})
             |-> IF k = LoggerTags /\ Len(tags) > 0 THEN Join(tags, <<",">>)
                 ELSE labels[k]]
    ELSE NoLabels

\* entry.Labels: nil when the module has no tags and the handle no labels;
\* else the joined tags under LoggerTags, then every ad-hoc label stored
\* over it.
EntryLabels(tags, labels) ==
    IF Len(tags) > 0 \/ DOMAIN labels # {}
    THEN LET base == IF Len(tags) > 0
                     THEN [k \in {LoggerTags} |-> Join(tags, <<",">>)]
                     ELSE NoLabels
         IN  [k \in DOMAIN base \cup DOMAIN labels |->
                 IF k \in DOMAIN labels THEN labels[k] ELSE base[k]]
    ELSE NoLabels

\* The Entry, in the fields that depend on the call and the registry;
\* Filename, Line and Timestamp are what runtime.Caller and time.Now give.
Entry(level, message, labels) ==
    [Level |-> level, Message |-> message, Labels |-> labels]

\* The Entry built with the module's effective level as its level.
LogCallfEntry_EffLevel(st, logger, level, message, args) ==
    Entry(EffectiveLogLevel(st, logger), FormattedMessage(message, args),
          EntryLabels(st.nodes[getModule(st, logger)].tags, logger.labels))

\* The Entry LogCallf builds once willWrite has passed.
LogCallfEntry(st, logger, level, message, args) ==
    Entry(level, FormattedMessage(message, args),
          EntryLabels(st.nodes[getModule(st, logger)].tags, logger.labels))

\* The check LogCallf starts with, without the early return.
LogCallfPasses_Always(st, logger, level) == TRUE

\* The check LogCallf starts with: whether it goes on.
LogCallfPasses(st, logger, level) ==
    willWrite(st, getModule(st, logger), level)

\* A writer registered under a name with its minimum level.
Registration(name, writer, minLevel) ==
    [name |-> name, writer |-> writer, minLevel |-> minLevel]

WriterNames(ws) == {ws[i].name : i \in 1..Len(ws)}

\* The writers whose Write fails (returns an error or panics) on every Entry.
FailingWriters == {"bad"}

\* The indices i..n in order.
RECURSIVE Upto(_, _)
Upto(i, n) == IF i > n THEN <<>> ELSE <<i>> \o Upto(i + 1, n)

\* Context.write stopping at the first writer that fails, the failure going
\* on to the caller.
writeFrom_Abort(ws, i, entry) ==
    LET admitted == {j \in i..Len(ws) : ws[j].minLevel <= entry.Level}
        failing  == {j \in admitted : ws[j].writer \in FailingWriters}
        stop     == IF failing = {} THEN Len(ws)
                    ELSE CHOOSE j \in failing : \A k \in failing : j <= k
    IN  [calls |-> SelectSeq(Upto(i, stop), LAMBDA j : j \in admitted),
         panic |-> failing # {}]

\* Context.write from the i-th writer on: Write is called on every writer
\* whose minimum level is at or below the Entry's level, in the order of
\* the writers; a failure of Write is caught where it is called, and the
\* next writer follows.  calls lists the writers called, one item a call.
RECURSIVE writeFrom(_, _, _)
writeFrom(ws, i, entry) ==
    IF i > Len(ws) THEN [calls |-> <<>>, panic |-> FALSE]
    ELSE LET rest == writeFrom(ws, i + 1, entry)
         IN  IF ws[i].minLevel <= entry.Level
             THEN [calls |-> <<i>> \o rest.calls, panic |-> rest.panic]
             ELSE rest

\* The number of calls in `calls` made on writer i.
CallsOf(calls, i) == Cardinality({k \in 1..Len(calls) : calls[k] = i})

\* Context.write(entry): the number of Write calls made on the writer of
\* each name.
Dispatch(ws, entry) ==
    LET calls == writeFrom(ws, 1, entry).calls
    IN  [w \in WriterNames(ws) |->
            Cardinality({k \in 1..Len(calls) : ws[calls[k]].name = w})]

\* AddWriter replacing the writer registered under a name already taken.
AddWriter_Replace(ws, name, writer, minLevel) ==
    IF name \in WriterNames(ws)
    THEN [writers |-> [i \in 1..Len(ws) |->
                          IF ws[i].name = name
                          THEN Registration(name, writer, minLevel)
                          ELSE ws[i]],
          err |-> "nil"]
    ELSE [writers |-> Append(ws, Registration(name, writer, minLevel)),
          err |-> "nil"]

\* Context.AddWriter(name, writer, minLevel): an error, and no change, when
\* the name is taken.
AddWriter(ws, name, writer, minLevel) ==
    IF name \in WriterNames(ws)
    THEN [writers |-> ws, err |-> "duplicate"]
    ELSE [writers |-> Append(ws, Registration(name, writer, minLevel)),
          err |-> "nil"]

----------------------------------------------------------------------------
(* A log call in two steps, so that levels can change between its check   *)
(* and its dispatch; one thread logs, any caller may change a level        *)
(* meanwhile.                                                              *)

LogCaller == CHOOSE t \in Threads : \A u \in Threads : t <= u

LogCallf(t, logger, level, message, args) ==
    /\ pc[t] = "idle"
    /\ pc' = [pc EXCEPT ![t] = "willWrite"]
    /\ local' = [local EXCEPT ![t] =
                    [op |-> "LogCallf", logger |-> logger, level |-> level,
                     message |-> message, args |-> args]]
    /\ UNCHANGED <<nodes, modules, writers, mutex, sink, last, labelMaps>>

\* logger.go:139-142
LogCheck(t) ==
    /\ pc[t] = "willWrite"
    /\ LET call == local[t]
           eff  == EffectiveLogLevel(Cur, call.logger)
       IN  IF LogCallfPasses(Cur, call.logger, call.level)
           THEN /\ pc' = [pc EXCEPT ![t] = "write"]
                /\ local' = [local EXCEPT ![t] =
                                [op |-> "LogCallf", logger |-> call.logger,
                                 level |-> call.level,
                                 message |-> call.message,
                                 args |-> call.args, eff |-> eff]]
           ELSE /\ pc' = [pc EXCEPT ![t] = "idle"]
                /\ local' = [local EXCEPT ![t] =
                                [op |-> "dropped", level |-> call.level,
                                 eff |-> eff, sprintf |-> 0]]
    /\ UNCHANGED <<nodes, modules, writers, mutex, sink, last, labelMaps>>

\* logger.go:143-184
LogWrite(t) ==
    /\ pc[t] = "write"
    /\ LET call  == local[t]
           c     == ContextOf(Cur, call.logger)
           entry == LogCallfEntry(Cur, call.logger, call.level,
                                  call.message, call.args)
           done  == writeFrom(writers[c], 1, entry)
       IN  /\ sink' = [context |-> c, entry |-> entry,
                       logger |-> call.logger,
                       tags |-> Tags(Cur, call.logger),
                       eff |-> call.eff, level |-> call.level,
                       writers |-> writers[c],
                       calls |-> done.calls,
                       to |-> Dispatch(writers[c], entry)]
           /\ local' = [local EXCEPT ![t] =
                           [op |-> IF done.panic THEN "panicked"
                                   ELSE "written",
                            level |-> call.level,
                            eff |-> call.eff,
                            sprintf |-> IF Len(call.args) > 0 THEN 1 ELSE 0]]
    /\ pc' = [pc EXCEPT ![t] = "idle"]
    /\ UNCHANGED <<nodes, modules, writers, mutex, last, labelMaps>>

\* A completed AddWriter call: what was asked and the error returned.
WriterCall(c, name, writer, minLevel, err) ==
    [op |-> "AddWriter", ctx |-> c, arg |-> name, writer |-> writer,
     level |-> minLevel, err |-> err]

DoAddWriter(c, name, writer, minLevel) ==
    LET r == AddWriter(writers[c], name, writer, minLevel)
    IN  /\ writers' = [writers EXCEPT ![c] = r.writers]
        /\ last' = WriterCall(c, name, writer, minLevel, r.err)
        /\ UNCHANGED <<nodes, modules, mutex, pc, local, sink, labelMaps>>

----------------------------------------------------------------------------
(* SpecLog: log calls on the default Context while levels change and       *)
(* writers are added.                                                      *)

SetLevelInputs == {UNSPECIFIED, ERROR}

LogLevelInputs == {WARNING, CRITICAL}

MessageInputs ==
    { [message |-> <<"m", "\n">>, args |-> <<>>],
      [message |-> <<"%d">>, args |-> << [type |-> "string", text |-> "x"] >>] }

WriterInputs ==
    { Registration(<<"t", "e", "s", "t">>, "w1", TRACE),
      Registration(<<"e", "r", "r", "s">>, "bad", ERROR),
      Registration(<<"t", "e", "s", "t">>, "w2", ERROR) }

\* The handles GetLogger returns on the default Context.
NodeHandles(st, c) ==
    { h \in PlainHandles(st) : h.impl # Nil /\ ContextOf(st, h) = c }

NextLog ==
    \/ DoGetLogger(DefaultContext, <<"a">>, <<>>)
    \/ \E h \in NodeHandles(Cur, DefaultContext), level \in SetLevelInputs :
          DoSetLogLevel(h, level)
    \/ \E w \in WriterInputs :
          DoAddWriter(DefaultContext, w.name, w.writer, w.minLevel)
    \/ \E h \in NodeHandles(Cur, DefaultContext), level \in LogLevelInputs,
          m \in MessageInputs :
          LogCallf(LogCaller, h, level, m.message, m.args)
    \/ LogCheck(LogCaller)
    \/ LogWrite(LogCaller)

SpecLog == Init /\ [][NextLog]_vars

(* SpecLabels: log calls through handles with ad-hoc labels on modules     *)
(* with and without tags.                                                  *)

LabelledHandles(st, c) ==
    { h \in Handles(st) : h.impl # Nil /\ ContextOf(st, h) = c }

NextLabels ==
    \/ \E h \in NodeHandles(Cur, OtherContext), tags \in TagInputs :
          DoChildWithTags(h, <<"B">>, tags)
    \/ DoGetLogger(OtherContext, <<"a">>, <<>>)
    \/ DoAddWriter(OtherContext, <<"t", "e", "s", "t">>, "w1", TRACE)
    \/ \E h \in LabelledHandles(Cur, OtherContext) :
          LogCallf(LogCaller, h, INFO, <<"m">>, <<>>)
    \/ LogCheck(LogCaller)
    \/ LogWrite(LogCaller)

SpecLabels == Init /\ [][NextLabels]_vars

----------------------------------------------------------------------------
(* The log call's early return (SpecLog). *)

\* A log call whose check fails returns at once: the thread is idle again,
\* no Sprintf was made, and the registry, the writers and the deliveries
\* are as they were.
DropDoesNothing ==
    \A t \in Threads :
       (/\ pc[t] = "willWrite"
        /\ pc'[t] # "willWrite"
        /\ local[t].level < EffectiveLogLevel(Cur, local[t].logger)) =>
          /\ pc'[t] = "idle"
          /\ local'[t].op = "dropped"
          /\ local'[t].sprintf = 0
          /\ UNCHANGED <<nodes, modules, writers, mutex, sink, labelMaps>>

\* Whatever reached the writers had a level at or above the effective level
\* its check saw, and a thread past the check is there on such a level.
DispatchedWasEnabled ==
    /\ sink # NoDelivery =>
          /\ sink.eff \in Specified
          /\ sink.entry.Level >= sink.eff
    /\ \A t \in Threads :
          /\ pc[t] = "write" => local[t].level >= local[t].eff
          /\ local[t].op = "dropped" =>
                local[t].level < local[t].eff /\ local[t].sprintf = 0
          /\ local[t].op = "written" => local[t].level >= local[t].eff

\* C4: a log call at level L on a handle whose module's effective level is
\* above L when it is checked does nothing more: nothing is formatted, no
\* Entry is built, no writer is called and nothing of the registry changes;
\* every Entry dispatched had a level at or above the effective level its
\* check saw.
C4_DisabledCallDoesNothing ==
    []DispatchedWasEnabled /\ [][DropDoesNothing]_vars

\* A WARNING call with a malformed format was dropped below a module at
\* ERROR, while an earlier Entry sits with a writer.
C4_Witness ==
    /\ pc[LogCaller] = "idle"
    /\ local[LogCaller].op = "dropped"
    /\ local[LogCaller].level = WARNING
    /\ local[LogCaller].eff = ERROR
    /\ sink # NoDelivery
    /\ \E w \in DOMAIN sink.to : sink.to[w] = 1

----------------------------------------------------------------------------
(* The labels of an Entry (SpecLabels). *)

\* C10: the Entry's labels are empty when the module has no tags and the
\* handle no ad-hoc labels; otherwise they are the key "logger-tags" with
\* the module's tags joined by "," (only when the module has tags) and every
\* ad-hoc label of the handle, the ad-hoc value standing for a key present
\* in both, the reserved key included.
C10_EntryLabelMerge ==
    sink # NoDelivery =>
       LET tags   == sink.tags
           labels == sink.logger.labels
           got    == sink.entry.Labels
       IN  /\ (tags = <<>> /\ DOMAIN labels = {}) => DOMAIN got = {}
           /\ DOMAIN got =
                 DOMAIN labels \cup (IF tags # <<>> THEN {LoggerTags} ELSE {})
           /\ \A k \in DOMAIN labels : got[k] = labels[k]
           /\ (tags # <<>> /\ LoggerTags \notin DOMAIN labels) =>
                 got[LoggerTags] = Join(tags, <<",">>)
           /\ (tags = << <<"t", "1">>, <<"t", "2">> >>
                  /\ LoggerTags \notin DOMAIN labels) =>
                 got[LoggerTags] = <<"t", "1", ",", "t", "2">>

\* An Entry of a module tagged t1, t2, logged through a handle whose ad-hoc
\* labels hold the reserved key too, reached the writer with the ad-hoc
\* value under that key.
C10_Witness ==
    /\ sink # NoDelivery
    /\ sink.tags = << <<"t", "1">>, <<"t", "2">> >>
    /\ DOMAIN sink.logger.labels = {"foo", LoggerTags}
    /\ sink.entry.Labels[LoggerTags] = <<"m", "i", "n", "e">>
    /\ sink.entry.Labels["foo"] = <<"b", "a", "r">>
    /\ \E w \in DOMAIN sink.to : sink.to[w] = 1

----------------------------------------------------------------------------
(* SpecRace: every thread makes one call for a name nobody has asked for   *)
(* before, through Context.GetLogger or through Child on the root handle.  *)
(* GetLogger works under the Context's lock: it looks the name up and      *)
(* creates what is missing.                                                *)

\* A lock taken whether or not it is held.
CanLock_Always(c) == TRUE

CanLock(c) == mutex[c] = NoThread

RaceNames == { <<"A", ".", "B">>, <<"a", ".", "b">>, <<"a">> }

\* The call is made: GetLogger(name, tags...), or the same through Child or
\* ChildWithTags on the root handle of c, which composes the path and calls
\* GetLogger; the name is lower-cased.
GLCall(t, c, name, viaChild, tags) ==
    /\ pc[t] = "idle"
    /\ local[t] = NoLocal
    /\ LET root == Logger(RootOf(Cur, c), NoLabels)
           path == IF viaChild
                   THEN ChildPath(nodes[getModule(Cur, root)], name)
                   ELSE name
       IN  local' = [local EXCEPT ![t] =
                        [op |-> "GetLogger", ctx |-> c, asked |-> name,
                         name |-> ToLower(path), tags |-> tags,
                         found |-> FALSE, impl |-> Nil]]
    /\ pc' = [pc EXCEPT ![t] = "lock"]
    /\ UNCHANGED <<nodes, modules, writers, mutex, sink, last, labelMaps>>

GLLock(t) ==
    /\ pc[t] = "lock"
    /\ CanLock(local[t].ctx)
    /\ mutex' = [mutex EXCEPT ![local[t].ctx] = t]
    /\ pc' = [pc EXCEPT ![t] = "find"]
    /\ UNCHANGED <<nodes, modules, writers, local, sink, last, labelMaps>>

GLFind(t) ==
    /\ pc[t] = "find"
    /\ local' = [local EXCEPT ![t].found =
                    local[t].name \in DOMAIN modules[local[t].ctx]]
    /\ pc' = [pc EXCEPT ![t] = "make"]
    /\ UNCHANGED <<nodes, modules, writers, mutex, sink, last, labelMaps>>

GLMake(t) ==
    /\ pc[t] = "make"
    /\ LET r == IF local[t].found
                THEN foundModule(Cur, local[t].ctx, local[t].name,
                                 local[t].tags)
                ELSE createModule(Cur, local[t].ctx, local[t].name,
                                  local[t].tags)
       IN  /\ nodes' = r.st.nodes
           /\ modules' = r.st.modules
           /\ local' = [local EXCEPT ![t].impl = r.impl]
    /\ pc' = [pc EXCEPT ![t] = "unlock"]
    /\ UNCHANGED <<writers, mutex, sink, last, labelMaps>>

GLUnlock(t) ==
    /\ pc[t] = "unlock"
    /\ mutex' = [mutex EXCEPT ![local[t].ctx] = NoThread]
    /\ pc' = [pc EXCEPT ![t] = "done"]
    /\ local' = [local EXCEPT ![t] =
                    [op |-> "returned", ctx |-> local[t].ctx,
                     asked |-> local[t].asked, found |-> local[t].found,
                     result |-> Logger(local[t].impl, NoLabels)]]
    /\ UNCHANGED <<nodes, modules, writers, sink, last, labelMaps>>

NextRace ==
    \/ \E t \in Threads, c \in Contexts, name \in RaceNames,
          viaChild \in BOOLEAN : GLCall(t, c, name, viaChild, <<>>)
    \/ \E t \in Threads : GLLock(t)
    \/ \E t \in Threads : GLFind(t)
    \/ \E t \in Threads : GLMake(t)
    \/ \E t \in Threads : GLUnlock(t)

SpecRace == Init /\ [][NextRace]_vars

\* The modules of the heap that belong to Context c under name n.
NodesNamed(c, n) ==
    {i \in 1..Len(nodes) : nodes[i].context = c /\ nodes[i].name = n}

Returned(t) == pc[t] = "done" /\ local[t].op = "returned"

\* C5: whatever the interleaving of the threads' GetLogger calls, the heap
\* holds exactly one module for each registered name, a thread that has
\* returned holds the module of the lower-cased name it asked for, whose
\* ancestors are all registered, and threads that asked for the same name
\* hold the same module.
C5_OneNodePerName ==
    /\ \A c \in Contexts : \A n \in DOMAIN modules[c] :
          NodesNamed(c, n) = {modules[c][n]}
    /\ \A i \in 1..Len(nodes) :
          nodes[i].name \in DOMAIN modules[nodes[i].context]
    /\ \A t \in Threads :
          Returned(t) =>
             LET n == ToLower(local[t].asked)
                 chain == NameChain(n)
             IN  /\ n \in DOMAIN modules[local[t].ctx]
                 /\ local[t].result.impl = modules[local[t].ctx][n]
                 /\ \A k \in 1..Len(chain) :
                       Cardinality(NodesNamed(local[t].ctx, chain[k])) = 1
    /\ \A t1 \in Threads, t2 \in Threads :
          (/\ Returned(t1) /\ Returned(t2)
           /\ local[t1].ctx = local[t2].ctx
           /\ ToLower(local[t1].asked) = ToLower(local[t2].asked)) =>
             local[t1].result = local[t2].result

\* Every thread has returned; two of them asked for a.b of the same Context
\* in different letter cases, one created it with its ancestor a and the
\* other found it, and they hold the same module.
C5_Witness ==
    /\ \A t \in Threads : Returned(t)
    /\ \E t1 \in Threads, t2 \in Threads :
          /\ t1 # t2
          /\ local[t1].ctx = local[t2].ctx
          /\ local[t1].asked = <<"A", ".", "B">>
          /\ local[t2].asked = <<"a", ".", "b">>
          /\ ~local[t1].found /\ local[t2].found
          /\ local[t1].result = local[t2].result
          /\ Cardinality(NodesNamed(local[t1].ctx, <<"a">>)) = 1
          /\ Cardinality(NodesNamed(local[t1].ctx, <<"a", ".", "b">>)) = 1

----------------------------------------------------------------------------
(* Labels maps as objects.  A Go map is a reference: the handle a caller   *)
(* holds carries the index of its map on the heap labelMaps, NilMap for    *)
(* the nil map.                                                            *)

NilMap == 0

LabelsAt(hp, ref) == IF ref = NilMap THEN NoLabels ELSE hp[ref]

\* The Logger value a held handle stands for.
Deref(hp, h) == Logger(h.impl, LabelsAt(hp, h.labels))

\* WithLabels storing the labels into the receiver's own map when it has one.
WithLabelsAlloc_InPlace(hp, h, ref) ==
    LET labels == LabelsAt(hp, ref)
    IN  IF DOMAIN labels = {} THEN [heap |-> hp, logger |-> h]
        ELSE IF h.labels # NilMap
        THEN [heap |-> [hp EXCEPT ![h.labels] =
                           [k \in DOMAIN @ \cup DOMAIN labels |->
                               IF k \in DOMAIN labels THEN labels[k] ELSE @[k]]],
              logger |-> h]
        ELSE [heap   |-> Append(hp, labels),
              logger |-> Logger(h.impl, Len(hp) + 1)]

\* Logger.WithLabels on the heap: the receiver itself for an empty map,
\* else a copy of the receiver whose labels are a map made by the call, into
\* which the call stores what WithLabels computes.
WithLabelsAlloc(hp, h, ref) ==
    LET labels == LabelsAt(hp, ref)
    IN  IF DOMAIN labels = {} THEN [heap |-> hp, logger |-> h]
        ELSE [heap   |-> Append(hp, WithLabels(Deref(hp, h), labels).labels),
              logger |-> Logger(h.impl, Len(hp) + 1)]

\* A call made through a held handle: the handles and the map passed, and
\* the Logger values they stand for when the call returns.
HandleCall(op, hp, recv, ref, result) ==
    [op |-> op, ctx |-> DefaultContext, recv |-> Deref(hp, recv),
     arg |-> LabelsAt(hp, ref), tags |-> <<>>, level |-> UNSPECIFIED,
     result |-> Deref(hp, result),
     recvHandle |-> recv, argRef |-> ref, handle |-> result]

DoWithLabels(h, ref) ==
    LET r == WithLabelsAlloc(labelMaps, h, ref)
    IN  /\ Len(r.heap) <= MaxMaps
        /\ labelMaps' = r.heap
        /\ last' = HandleCall("WithLabels", r.heap, h, ref, r.logger)
        /\ UNCHANGED <<nodes, modules, writers, mutex, pc, local, sink>>

----------------------------------------------------------------------------
(* SpecHandles: a client that holds handles with and without ad-hoc        *)
(* labels, navigates from them and logs through them.                      *)

\* The handles the client holds: the zero Logger, one on every module of
\* the Context made by NewContext, and the handle its last WithLabels call
\* returned.
HeldHandles ==
    { Logger(i, NilMap) :
         i \in {Nil} \cup {j \in 1..Len(nodes) :
                              nodes[j].context = OtherContext} }
       \cup (IF last.op = "WithLabels" THEN {last.handle} ELSE {})

\* The handle the client goes on with: the one WithLabels returned last,
\* which is the receiver itself when the map was empty.
UsedHandles ==
    IF last.op = "WithLabels" THEN {Deref(labelMaps, last.handle)} ELSE {}

\* The client makes one call at a time.
ClientIdle == \A t \in Threads : pc[t] = "idle"

NextHandles ==
    \/ ClientIdle /\ \E h \in HeldHandles, ref \in 1..Len(CallerMaps) :
                        DoWithLabels(h, ref)
    \/ ClientIdle /\ \E h \in UsedHandles : DoParent(h)
    \/ ClientIdle /\ \E h \in UsedHandles : DoRoot(h)
    \/ ClientIdle /\ \E h \in UsedHandles : DoChild(h, <<"B">>)
    \/ ClientIdle /\ \E h \in UsedHandles, tags \in TagInputs :
                        DoChildWithTags(h, <<"B">>, tags)
    \/ ClientIdle /\ \E h \in UsedHandles :
                        LogCallf(LogCaller, h, WARNING, <<"m">>, <<>>)
    \/ LogCheck(LogCaller)
    \/ LogWrite(LogCaller)

SpecHandles == Init /\ [][NextHandles]_vars

----------------------------------------------------------------------------
(* WithLabels (SpecHandles). *)

\* `over` merged over `base`: every key of either, the value of `over` for
\* a key of both.
MergedOver(base, over) ==
    [k \in DOMAIN base \cup DOMAIN over |->
        IF k \in DOMAIN over THEN over[k] ELSE base[k]]

\* C11: WithLabels(m) returns a handle on the same module whose labels are
\* the receiver's labels with m merged over them, a label of the receiver
\* being kept unless m has its key; WithLabels of an empty map returns the
\* receiver unchanged.
C11_WithLabelsMerges ==
    last.op = "WithLabels" =>
       /\ last.result.impl = last.recv.impl
       /\ last.result.labels = MergedOver(last.recv.labels, last.arg)
       /\ DOMAIN last.arg = {} => last.handle = last.recvHandle

----------------------------------------------------------------------------
(* SpecZero: a client that works through the zero Logger and through the   *)
(* handle GetLogger("") gives on the default Context.                      *)

DefaultRoot(st) == Logger(RootOf(st, DefaultContext), NoLabels)

ZeroLevelInputs == {UNSPECIFIED, TRACE, ERROR}

NextZero ==
    \/ \E h \in {ZeroLogger, DefaultRoot(Cur)}, level \in ZeroLevelInputs :
          DoSetLogLevel(h, level)
    \/ DoResetLevels(DefaultContext)
    \/ DoChild(ZeroLogger, <<"B">>)
    \/ DoParent(ZeroLogger)
    \/ DoRoot(ZeroLogger)
    \/ DoAddWriter(DefaultContext, <<"t", "e", "s", "t">>, "w1", TRACE)
    \/ \E level \in LogLevelInputs :
          LogCallf(LogCaller, ZeroLogger, level, <<"m">>, <<>>)
    \/ LogCheck(LogCaller)
    \/ LogWrite(LogCaller)

SpecZero == Init /\ [][NextZero]_vars

\* Every operation of the handle gives on h1 what it gives on h2.
SameOnBoth(h1, h2) ==
    /\ Name(Cur, h1) = Name(Cur, h2)
    /\ LogLevel(Cur, h1) = LogLevel(Cur, h2)
    /\ Tags(Cur, h1) = Tags(Cur, h2)
    /\ EffectiveLogLevel(Cur, h1) = EffectiveLogLevel(Cur, h2)
    /\ \A x \in Levels :
          /\ SetLogLevel(Cur, h1, x) = SetLogLevel(Cur, h2, x)
          /\ IsLevelEnabled(Cur, h1, x) = IsLevelEnabled(Cur, h2, x)
          /\ LogCallfPasses(Cur, h1, x) = LogCallfPasses(Cur, h2, x)
          /\ \A m \in MessageInputs :
                LogCallfEntry(Cur, h1, x, m.message, m.args) =
                   LogCallfEntry(Cur, h2, x, m.message, m.args)
    /\ IsErrorEnabled(Cur, h1) = IsErrorEnabled(Cur, h2)
    /\ IsWarningEnabled(Cur, h1) = IsWarningEnabled(Cur, h2)
    /\ IsInfoEnabled(Cur, h1) = IsInfoEnabled(Cur, h2)
    /\ IsDebugEnabled(Cur, h1) = IsDebugEnabled(Cur, h2)
    /\ IsTraceEnabled(Cur, h1) = IsTraceEnabled(Cur, h2)
    /\ Parent(Cur, h1) = Parent(Cur, h2)
    /\ Root(Cur, h1) = Root(Cur, h2)
    /\ \A s \in NameArgs : Child(Cur, h1, s) = Child(Cur, h2, s)
    /\ ContextOf(Cur, h1) = ContextOf(Cur, h2)

\* C12: the zero Logger is usable and every operation on it acts on the
\* root module of the default Context: Name, LogLevel, EffectiveLogLevel,
\* SetLogLevel, the Is*Enabled predicates, Parent, Child, Root and the log
\* calls give what they give on the handle of that root, a level set
\* through it is the root's level, its Entries go to the default Context,
\* and after a reset its level is WARNING.
C12_ZeroLoggerIsDefaultRoot ==
    /\ SameOnBoth(ZeroLogger, DefaultRoot(Cur))
    /\ Name(Cur, ZeroLogger) = RootString
    /\ Parent(Cur, ZeroLogger) = DefaultRoot(Cur)
    /\ Root(Cur, ZeroLogger).logger = DefaultRoot(Cur)
    /\ (last.op = "SetLogLevel" /\ last.recv = ZeroLogger) =>
          nodes[RootOf(Cur, DefaultContext)].level =
             IF last.level = UNSPECIFIED THEN WARNING ELSE last.level
    /\ (last.op = "Child" /\ last.recv = ZeroLogger) =>
          /\ nodes[last.result.impl].context = DefaultContext
          /\ nodes[last.result.impl].parent = RootOf(Cur, DefaultContext)
    /\ (last.op \in {"Parent", "Root"} /\ last.recv = ZeroLogger) =>
          last.result = DefaultRoot(Cur)
    /\ last.op = "ResetLevels" =>
          /\ LogLevel(Cur, ZeroLogger) = WARNING
          /\ EffectiveLogLevel(Cur, ZeroLogger) = WARNING
    /\ (sink # NoDelivery /\ sink.logger = ZeroLogger) =>
          sink.context = DefaultContext
    /\ nodes[RootOf(Cur, OtherContext)].level = DEBUG

\* TRACE was set through the zero Logger, it is the level of the default
\* root, and a WARNING Entry logged through the zero Logger has reached the
\* writer of the default Context.
C12_Witness ==
    /\ last.op = "SetLogLevel" /\ last.recv = ZeroLogger
    /\ last.level = TRACE
    /\ LogLevel(Cur, DefaultRoot(Cur)) = TRACE
    /\ IsTraceEnabled(Cur, ZeroLogger)
    /\ sink # NoDelivery /\ sink.logger = ZeroLogger
    /\ sink.entry.Level = WARNING
    /\ \E w \in DOMAIN sink.to : sink.to[w] = 1

----------------------------------------------------------------------------
(* The writers of a Context (SpecLog). *)

UniqueWriterNames(ws) ==
    \A i \in 1..Len(ws), j \in 1..Len(ws) : ws[i].name = ws[j].name => i = j

\* An Entry of each level, for the dispatches the properties try.
ProbeEntries == { Entry(level, <<"m">>, NoLabels) : level \in Specified }

\* In every state: the names are unique, and an AddWriter of a name that is
\* taken would return the error and the writers as they are, each of which
\* is then called as before.
WritersState ==
    /\ \A c \in Contexts : UniqueWriterNames(writers[c])
    /\ \A c \in Contexts, w \in WriterInputs :
          w.name \in WriterNames(writers[c]) =>
             LET r == AddWriter(writers[c], w.name, w.writer, w.minLevel)
             IN  /\ r.err = "duplicate"
                 /\ r.writers = writers[c]
                 /\ \A e \in ProbeEntries :
                       writeFrom(r.writers, 1, e) = writeFrom(writers[c], 1, e)
    /\ last.op = "AddWriter" =>
          /\ last.arg \in WriterNames(writers[last.ctx])
          /\ last.err = "nil" =>
                \E i \in 1..Len(writers[last.ctx]) :
                   writers[last.ctx][i] =
                      Registration(last.arg, last.writer, last.level)

\* In every step: an AddWriter call of a name that is taken returns the
\* error and leaves the writers as they were, any other AddWriter call adds
\* its registration after the others, and no registration is ever changed.
WritersStep ==
    /\ (last'.op = "AddWriter" /\ last' # last) =>
          LET c == last'.ctx
          IN  IF last'.arg \in WriterNames(writers[c])
              THEN last'.err = "duplicate" /\ writers' = writers
              ELSE /\ last'.err = "nil"
                   /\ writers'[c] =
                         Append(writers[c],
                                Registration(last'.arg, last'.writer,
                                             last'.level))
    /\ \A c \in Contexts : \A i \in 1..Len(writers[c]) :
          i <= Len(writers'[c]) /\ writers'[c][i] = writers[c][i]

\* C13: AddWriter with a name already registered in the Context fails with
\* the duplicate-writer error and leaves the writers unchanged: the writer
\* and the minimum level registered under the name are not replaced and are
\* called on later Entries as before; writer names are unique in every
\* reachable state.
C13_DuplicateWriterRejected == []WritersState /\ [][WritersStep]_vars

\* "test" was added again, with another writer and ERROR as its minimum
\* level, and the call failed: the name still belongs to the first writer,
\* which admits a WARNING Entry and has been given one.
C13_Witness ==
    /\ last.op = "AddWriter" /\ last.err = "duplicate"
    /\ last.writer = "w2" /\ last.level = ERROR
    /\ \E i \in 1..Len(writers[DefaultContext]) :
          /\ writers[DefaultContext][i] =
                Registration(<<"t", "e", "s", "t">>, "w1", TRACE)
          /\ CallsOf(writeFrom(writers[DefaultContext], 1,
                               Entry(WARNING, <<"m">>, NoLabels)).calls,
                     i) = 1
    /\ sink # NoDelivery /\ sink.entry.Level = WARNING
    /\ \E i \in 1..Len(sink.writers) :
          sink.writers[i].writer = "w1" /\ CallsOf(sink.calls, i) = 1

\* C14: for every log call that has passed the check of its module, the
\* Entry carries the level of the call, every writer registered when it is
\* dispatched whose minimum level is at or below that level has Write
\* called exactly once with the Entry, and a writer whose minimum level is
\* above it is not called; where the module's effective level lies makes no
\* difference to a writer.
C14_FanOut ==
    /\ sink # NoDelivery =>
          /\ sink.entry.Level = sink.level
          /\ sink.level >= sink.eff
          /\ \A i \in 1..Len(sink.writers) :
                CallsOf(sink.calls, i) =
                   IF sink.writers[i].minLevel <= sink.level THEN 1 ELSE 0
          /\ \A k \in 1..Len(sink.calls) : sink.calls[k] \in 1..Len(sink.writers)
          /\ \A w \in DOMAIN sink.to :
                \E i \in 1..Len(sink.writers) :
                   /\ sink.writers[i].name = w
                   /\ sink.to[w] = CallsOf(sink.calls, i)
    /\ \A c \in Contexts, e \in ProbeEntries :
          \A i \in 1..Len(writers[c]) :
             CallsOf(writeFrom(writers[c], 1, e).calls, i) =
                IF writers[c][i].minLevel <= e.Level THEN 1 ELSE 0

\* A WARNING Entry passed a module whose effective level is WARNING: the
\* writer registered at TRACE was called once, the writer registered at
\* ERROR was not.
C14_Witness ==
    /\ sink # NoDelivery
    /\ sink.level = WARNING /\ sink.eff = WARNING
    /\ Len(sink.writers) = 2
    /\ \E i \in 1..2, j \in 1..2 :
          /\ sink.writers[i].minLevel = TRACE /\ CallsOf(sink.calls, i) = 1
          /\ sink.writers[j].minLevel = ERROR /\ CallsOf(sink.calls, j) = 0

\* The writers of a dispatch that were to get the Entry, and those of them
\* that failed on it.
Admitted == {i \in 1..Len(sink.writers) :
                sink.writers[i].minLevel <= sink.entry.Level}

Failed == {i \in Admitted : sink.writers[i].writer \in FailingWriters}

\* C15: when a writer fails while an Entry is dispatched, every other
\* writer whose minimum level admits the Entry is still called with it, and
\* the failure does not reach the caller: the log call returns normally.
C15_SinkFailureIsolated ==
    /\ sink # NoDelivery =>
          \A j \in Failed : \A i \in Admitted \ {j} :
             CallsOf(sink.calls, i) = 1
    /\ \A t \in Threads :
          /\ local[t].op # "panicked"
          /\ (pc[t] = "idle" /\ local[t] # NoLocal) =>
                local[t].op \in {"written", "dropped"}

\* A CRITICAL Entry was dispatched to a failing writer and then to another
\* writer, added after it: both were called and the log call has returned.
C15_Witness ==
    /\ sink # NoDelivery /\ sink.entry.Level = CRITICAL
    /\ Len(sink.writers) = 2
    /\ sink.writers[1].writer \in FailingWriters
    /\ sink.writers[2].writer \notin FailingWriters
    /\ sink.calls = <<1, 2>>
    /\ pc[LogCaller] = "idle" /\ local[LogCaller].op = "written"

----------------------------------------------------------------------------
(* The walk to the effective level ends (SpecLevels). *)

\* The number of segments of a name: 0 for the root.
Depth(name) == Len(NameChain(name)) - 1

\* The module k parent links above module id.
RECURSIVE Ancestor(_, _, _)
Ancestor(st, id, k) ==
    IF k = 0 THEN id ELSE Ancestor(st, st.nodes[id].parent, k - 1)

\* C16: from every module, in every reachable state, the resolution of the
\* effective level returns, with a level other than UNSPECIFIED, after
\* following no more parent links than the name has segments; the parent
\* links lead from every module to the root of its Context in that many
\* steps, and only a root is met again on the way up from itself.
C16_ResolutionTerminates ==
    \A i \in 1..Len(nodes) :
       LET d == Depth(nodes[i].name)
       IN  /\ getEffectiveLogLevel(Cur, i) # Hangs
           /\ getEffectiveLogLevel(Cur, i) \in Specified
           /\ EffectiveLogLevel(Cur, Logger(i, NoLabels)) \in Specified
           /\ walkLength(Cur, i, Len(nodes)) # Hangs
           /\ walkLength(Cur, i, Len(nodes)) <= d
           /\ Ancestor(Cur, i, d) = RootOf(Cur, nodes[i].context)
           /\ \A k \in 1..Len(nodes) :
                 Ancestor(Cur, i, k) = i => nodes[i].name = <<>>
           /\ \A k \in 0..(d - 1) :
                 Depth(nodes[Ancestor(Cur, i, k)].name) = d - k

\* The root was asked to become UNSPECIFIED while a and a.b are
\* UNSPECIFIED: the walk from a.b follows two links and ends at the root.
C16_Witness ==
    /\ last.op = "SetLogLevel" /\ last.level = UNSPECIFIED
    /\ IsRoot(Cur, last.recv)
    /\ \E i \in 1..Len(nodes) :
          /\ nodes[i].name = <<"a", ".", "b">>
          /\ nodes[i].level = UNSPECIFIED
          /\ nodes[nodes[i].parent].level = UNSPECIFIED
          /\ walkLength(Cur, i, Len(nodes)) = 2
          /\ getEffectiveLogLevel(Cur, i) = WARNING

----------------------------------------------------------------------------
(* SpecShared: threads that set levels, merge tags, read levels and tags   *)
(* and log, all on the modules of the default Context.  The mutations and  *)
(* willWrite work under the Context's lock; LogLevel, Tags and the rest of *)
(* LogCallf are the code of logger.go, which takes no lock.                *)

\* Logger.SetLogLevel, step by step: the call, the lock taken in setLevel,
\* the store, the unlock and return.
SLCall(t, h, level) ==
    /\ pc[t] = "idle"
    /\ pc' = [pc EXCEPT ![t] = "sl_lock"]
    /\ local' = [local EXCEPT ![t] =
                    [op |-> "SetLogLevel", logger |-> h, level |-> level,
                     ctx |-> ContextOf(Cur, h)]]
    /\ UNCHANGED <<nodes, modules, writers, mutex, sink, last, labelMaps>>

SLLock(t) ==
    /\ pc[t] = "sl_lock"
    /\ CanLock(local[t].ctx)
    /\ mutex' = [mutex EXCEPT ![local[t].ctx] = t]
    /\ pc' = [pc EXCEPT ![t] = "sl_store"]
    /\ UNCHANGED <<nodes, modules, writers, local, sink, last, labelMaps>>

SLStore(t) ==
    /\ pc[t] = "sl_store"
    /\ Becomes(SetLogLevel(Cur, local[t].logger, local[t].level))
    /\ pc' = [pc EXCEPT ![t] = "sl_unlock"]
    /\ UNCHANGED <<writers, mutex, local, sink, last, labelMaps>>

SLUnlock(t) ==
    /\ pc[t] = "sl_unlock"
    /\ mutex' = [mutex EXCEPT ![local[t].ctx] = NoThread]
    /\ pc' = [pc EXCEPT ![t] = "idle"]
    /\ last' = Call("SetLogLevel", local[t].ctx, local[t].logger, <<>>, <<>>,
                    local[t].level, local[t].logger)
    /\ local' = [local EXCEPT ![t] = NoLocal]
    /\ UNCHANGED <<nodes, modules, writers, sink, labelMaps>>

\* Logger.LogLevel and Logger.Tags: the call, then the read of the field.
FieldCall(t, h, field) ==
    /\ pc[t] = "idle"
    /\ pc' = [pc EXCEPT ![t] = field]
    /\ local' = [local EXCEPT ![t] =
                    [op |-> "read", logger |-> h, ctx |-> ContextOf(Cur, h)]]
    /\ UNCHANGED <<nodes, modules, writers, mutex, sink, last, labelMaps>>

FieldRead(t) ==
    /\ pc[t] \in {"level", "tags"}
    /\ local' = [local EXCEPT ![t] =
                    [op |-> "returned", field |-> pc[t],
                     result |-> IF pc[t] = "level"
                                THEN LogLevel(Cur, local[t].logger)
                                ELSE Tags(Cur, local[t].logger)]]
    /\ pc' = [pc EXCEPT ![t] = "idle"]
    /\ UNCHANGED <<nodes, modules, writers, mutex, sink, last, labelMaps>>

\* module.willWrite under the lock: the check of a log call waits for it.
LockedLogCheck(t) ==
    /\ pc[t] = "willWrite"
    /\ CanLock(ContextOf(Cur, local[t].logger))
    /\ LogCheck(t)

\* The thread that has returned from GetLogger goes on to its next call.
GLReturn(t) ==
    /\ pc[t] = "done"
    /\ pc' = [pc EXCEPT ![t] = "idle"]
    /\ local' = [local EXCEPT ![t] = NoLocal]
    /\ UNCHANGED <<nodes, modules, writers, mutex, sink, last, labelMaps>>

SharedLevelInputs == {UNSPECIFIED, ERROR}

SharedTagInputs == { <<>>, << <<"t", "1">> >> }

\* The thread that makes the changes; every thread reads and logs.
Mutator == CHOOSE t \in Threads : \A u \in Threads : u <= t

NextShared ==
    \/ \E tags \in SharedTagInputs :
          GLCall(Mutator, DefaultContext, <<"a">>, FALSE, tags)
    \/ GLLock(Mutator)
    \/ GLFind(Mutator)
    \/ GLMake(Mutator)
    \/ GLUnlock(Mutator)
    \/ GLReturn(Mutator)
    \/ \E h \in NodeHandles(Cur, DefaultContext),
          level \in SharedLevelInputs : SLCall(Mutator, h, level)
    \/ SLLock(Mutator)
    \/ SLStore(Mutator)
    \/ SLUnlock(Mutator)
    \/ \E t \in Threads, h \in NodeHandles(Cur, DefaultContext),
          field \in {"level", "tags"} : FieldCall(t, h, field)
    \/ \E t \in Threads : FieldRead(t)
    \/ \E t \in Threads, h \in NodeHandles(Cur, DefaultContext) :
          LogCallf(t, h, WARNING, <<"m">>, <<>>)
    \/ \E t \in Threads : LockedLogCheck(t)
    \/ \E t \in Threads : LogWrite(t)

SpecShared == Init /\ [][NextShared]_vars

\* The level a module holds after SetLogLevel(level): the root takes WARNING
\* for UNSPECIFIED.
Normalized(logger, level) ==
    IF IsRoot(Cur, logger) /\ level = UNSPECIFIED THEN WARNING ELSE level

\* The last SetLogLevel call that returned is in force until the next store.
VisibleAfterReturn ==
    (last.op = "SetLogLevel" /\ pc[Mutator] # "sl_unlock")
        => nodes[getModule(Cur, last.recv)].level
               = Normalized(last.recv, last.level)

\* The check of a log call decides on the levels the modules hold at that
\* step: the nearest specified level on the logger's chain.
DecisionUsesCurrent ==
    \A t \in Threads :
        (pc[t] = "willWrite" /\ pc'[t] # "willWrite") =>
            LET m    == nodes[getModule(Cur, local[t].logger)]
                near == NearestSpecified(Cur, m.context, m.name)
            IN  /\ local'[t].eff = near
                /\ (pc'[t] = "write") <=> (local[t].level >= near)

\* A module's level changes in the store of a SetLogLevel call alone, made
\* by the holder of the lock, and becomes the level that call asked for.
LevelChangesOnlyByStore ==
    \A i \in 1..Len(nodes) :
        nodes'[i].level # nodes[i].level =>
            /\ pc[Mutator] = "sl_store"
            /\ mutex[local[Mutator].ctx] = Mutator
            /\ i = getModule(Cur, local[Mutator].logger)
            /\ nodes'[i].level
                   = Normalized(local[Mutator].logger, local[Mutator].level)

\* C17: once SetLogLevel has returned, the module holds the new level and
\* every later check of a log call on any thread decides on it, an
\* ancestor's level included; a check racing with a SetLogLevel decides on
\* the levels held before or after the store, which are the only values a
\* level takes.
C17_LevelChangeVisible ==
    /\ []VisibleAfterReturn
    /\ [][DecisionUsesCurrent /\ LevelChangesOnlyByStore]_vars

\* SetLogLevel(ERROR) on the root has returned, "a" inherits, and another
\* thread's WARNING call was dropped on the effective level ERROR.
C17_Witness ==
    /\ last.op = "SetLogLevel"
    /\ IsRoot(Cur, last.recv)
    /\ last.level = ERROR
    /\ nodes[RootOf(Cur, DefaultContext)].level = ERROR
    /\ \E i \in 1..Len(nodes) :
          /\ nodes[i].name = <<"a">>
          /\ nodes[i].level = UNSPECIFIED
    /\ \E t \in Threads :
          /\ t # Mutator
          /\ pc[t] = "idle"
          /\ local[t].op = "dropped"
          /\ local[t].level = WARNING
          /\ local[t].eff = ERROR

\* The steps at which a thread reads or writes the map, a level or tags:
\* the lookup and the creation or merge of GetLogger, the store of
\* SetLogLevel, the field reads of LogLevel and Tags, and the tag read of
\* LogCallf after its check passed.
AccessSteps == {"find", "make", "sl_store", "level", "tags", "write"}

AccessContext(t) ==
    IF pc[t] = "write" THEN ContextOf(Cur, local[t].logger)
    ELSE local[t].ctx

HeldForEveryAccess ==
    \A t \in Threads :
        pc[t] \in AccessSteps => mutex[AccessContext(t)] = t

\* Thread u is about to change the level (tags) of the module that thread t
\* is about to read the level (tags) of.
StoresLevelOf(u, m) ==
    /\ pc[u] = "sl_store"
    /\ getModule(Cur, local[u].logger) = m
    /\ Normalized(local[u].logger, local[u].level) # nodes[m].level

MergesTagsOf(u, m) ==
    /\ pc[u] = "make"
    /\ local[u].found
    /\ modules[local[u].ctx][local[u].name] = m
    /\ MergeTags(nodes[m].tags, local[u].tags) # nodes[m].tags

NoUnlockedRace ==
    \A t \in Threads, u \in Threads :
        (u # t /\ pc[t] \in {"level", "tags", "write"}) =>
            LET m == getModule(Cur, local[t].logger)
            IN  \/ mutex[AccessContext(t)] = t
                \/ /\ pc[t] = "level" => ~StoresLevelOf(u, m)
                   /\ pc[t] \in {"tags", "write"} => ~MergesTagsOf(u, m)

\* C18: every read and write of the map, of a module's level and of its
\* tags is made by the holder of the Context's lock; LogLevel, Tags and
\* the tag read of LogCallf never meet a SetLogLevel or a tag merge on the
\* same module without that lock.
C18_LockDiscipline == HeldForEveryAccess /\ NoUnlockedRace

----------------------------------------------------------------------------
(* What SetLogLevel leaves alone (SpecLevels). *)

\* Registry `to` is registry `from` with the level of module m set to
\* `level` and nothing else changed; the modules above m resolve to the
\* effective levels they had.
OnlyLevelOf(from, to, m, level) ==
    /\ to.modules = from.modules
    /\ Len(to.nodes) = Len(from.nodes)
    /\ to.nodes[m].level = level
    /\ to.nodes[m].tags = from.nodes[m].tags
    /\ to.nodes[m].parent = from.nodes[m].parent
    /\ to.nodes[m].name = from.nodes[m].name
    /\ to.nodes[m].context = from.nodes[m].context
    /\ \A i \in 1..Len(from.nodes) : i # m => to.nodes[i] = from.nodes[i]
    /\ \A k \in 1..Depth(from.nodes[m].name) :
          LET up == Ancestor(from, m, k)
          IN  getEffectiveLogLevel(to, up) = getEffectiveLogLevel(from, up)

\* SetLogLevel(l) on any handle of a non-root module, from the state at hand.
SetLogLevelFrame ==
    \A h \in DefaultHandles(Cur), l \in Levels :
        ~IsRoot(Cur, h) =>
            OnlyLevelOf(Cur, SetLogLevel(Cur, h, l), getModule(Cur, h), l)

\* A step that is a SetLogLevel call on a non-root module.
SetLogLevelStep ==
    /\ last'.op = "SetLogLevel"
    /\ (last' # last \/ nodes' # nodes)
    /\ ~IsRoot(Cur, last'.recv)

SetLogLevelStepFrame ==
    SetLogLevelStep =>
        /\ OnlyLevelOf(Cur, Registry(nodes', modules'),
                       getModule(Cur, last'.recv), last'.level)
        /\ writers' = writers

\* C19: SetLogLevel(l) on a non-root module sets that module's own level to
\* exactly l, UNSPECIFIED included, and changes nothing else: the other
\* modules' levels, every module's tags and parent, the set of modules and
\* the writers stay as they were, and the effective levels of the modules
\* above it are what they were.
C19_SetLogLevelFrame ==
    /\ []SetLogLevelFrame
    /\ [][SetLogLevelStepFrame]_vars

\* SetLogLevel(UNSPECIFIED) was called on "a.b": it inherits again, its
\* parent "a" keeps the level ERROR and the root the level DEBUG.
C19_Witness ==
    /\ last.op = "SetLogLevel" /\ last.level = UNSPECIFIED
    /\ LET m == getModule(Cur, last.recv)
       IN  /\ nodes[m].name = <<"a", ".", "b">>
           /\ nodes[m].level = UNSPECIFIED
           /\ nodes[nodes[m].parent].level = ERROR
           /\ getEffectiveLogLevel(Cur, m) = ERROR
           /\ nodes[RootOf(Cur, DefaultContext)].level = DEBUG

----------------------------------------------------------------------------
(* Navigation and labels (SpecHandles). *)

Navigation == {"Root", "Parent", "Child", "ChildWithTags"}

\* The handle a navigation call returned carries no labels, whatever the
\* receiver carried.
NavigationDropsLabels ==
    last.op \in Navigation => DOMAIN last.result.labels = {}

\* Every Labels map that exists keeps its content: the maps the caller
\* built and passed, and the maps of the handles made so far.
MapsKept ==
    /\ Len(labelMaps') >= Len(labelMaps)
    /\ \A r \in 1..Len(labelMaps) : labelMaps'[r] = labelMaps[r]

\* A step that is a WithLabels call.
WithLabelsStep ==
    /\ last'.op = "WithLabels"
    /\ (last' # last \/ labelMaps' # labelMaps)

\* A step of a log call: the call, its check, its dispatch.
LoggingStep == \E t \in Threads : pc'[t] # pc[t]

HandlesFrame ==
    /\ WithLabelsStep =>
          /\ nodes' = nodes
          /\ modules' = modules
          /\ MapsKept
          /\ Deref(labelMaps', last'.recvHandle)
                 = Deref(labelMaps, last'.recvHandle)
          /\ LabelsAt(labelMaps', last'.argRef)
                 = LabelsAt(labelMaps, last'.argRef)
    /\ LoggingStep =>
          /\ nodes' = nodes
          /\ modules' = modules
          /\ labelMaps' = labelMaps
          /\ \A t \in Threads :
                (pc[t] = "willWrite" /\ pc'[t] = "write") =>
                    local'[t].logger = local[t].logger

\* C20: Root, Parent, Child and ChildWithTags return a handle without
\* labels, also from a handle that carries labels; WithLabels and the steps
\* of a log call leave every module, tags included, the receiver's labels
\* and the map the caller passed as they were.
C20_NavigationCarriesNoLabels ==
    /\ []NavigationDropsLabels
    /\ [][HandlesFrame]_vars

\* ChildWithTags was called on a handle with labels, after two WithLabels
\* calls that passed labels and a log call written through a handle with
\* labels; the child has the tags and the returned handle no labels.
C20_Witness ==
    /\ last.op = "ChildWithTags"
    /\ DOMAIN last.recv.labels # {}
    /\ DOMAIN last.result.labels = {}
    /\ nodes[last.result.impl].tags # <<>>
    /\ Len(labelMaps) = Len(CallerMaps) + 2
    /\ sink # NoDelivery
    /\ DOMAIN sink.logger.labels # {}

====
